---- MODULE Spec2Model ----
(***************************************************************************)
(* State-machine model of the rainfall monitor's core:                     *)
(*   src/src/real_time_updater.py  RealTimeUpdater (history store,         *)
(*                                 pipeline, background scheduler)         *)
(*   src/src/data_fetcher.py       HKODataFetcher.fetch_all_data           *)
(*                                                                         *)
(* Time is counted in minutes: time.sleep(60) of the worker loop is one    *)
(* unit, update_interval is given in minutes, the retention window of 24   *)
(* hours is 1440 units.                                                    *)
(***************************************************************************)
EXTENDS Integers, Sequences, FiniteSets, TLC

VARIABLES
    now,              \* datetime.now(), in minutes
    update_interval,  \* RealTimeUpdater.update_interval (constructor argument)
    is_running,       \* RealTimeUpdater.is_running
    update_thread,    \* RealTimeUpdater.update_thread (0 is None)
    jobs,             \* schedule.jobs of the process-wide default scheduler
    pc,               \* position of the calling thread and of every worker thread
    cur,              \* per thread: current_data of its fetch_and_store_data call
    cutoff_time,      \* per thread: cutoff_time of its prune step
    filt,             \* per thread: the list built by the prune comprehension
    job,              \* per thread: the job object run_pending is running
    wake,             \* per thread: the time its time.sleep(60) ends
    lists,            \* the heap of list objects
    historical_data,  \* RealTimeUpdater.historical_data: a reference into lists
    file,             \* contents of data/historical_data.json
    historical_file,  \* what is found at the path self.historical_file
    readers,          \* number of reader contexts (consumers of the read API)
    rd,               \* what the reader's call returned
    appended,         \* history of the run: ids of the snapshots appended, in order
    just_done,        \* history of the run: an execution ended at the current minute
    runs,             \* number of pipeline executions started
    nworkers,         \* number of worker threads started
    ticks,            \* number of one-minute clock advances
    jumps,            \* number of long idle periods
    restarts,         \* number of process restarts
    net,              \* what the three HKO resources answer to one fetch_all_data
    fpc,              \* position of the fetch_all_data call under study
    requested,        \* the resources that call has requested so far
    all_data          \* the dict that call builds

vars == <<now, update_interval, is_running, update_thread, jobs, pc, cur,
          cutoff_time, filt, appended, just_done,
          job, wake, lists, historical_data, file, historical_file, readers, rd,
          runs, nworkers, ticks, jumps, restarts, net, fpc, requested, all_data>>

---------------------------------------------------------------------------
(* Bounds of the model *)
MaxWorkers == 2
MaxRuns == 3
MaxTicks == 2
MaxJumps == 1
MaxRestarts == 1
MaxInterval == 1
MaxReadRuns == 3
MaxReadTicks == 1
MaxFileLen == 3

(* Program constants *)
RetentionHours == 24
SleepSeconds == 60
MainThread == 0

\* with a reader the model explores fewer executions and minutes
RunBudget == IF readers = 0 THEN MaxRuns ELSE MaxReadRuns
TickBudget == IF readers = 0 THEN MaxTicks ELSE MaxReadTicks

Retention == RetentionHours * 60
SleepTime == SleepSeconds \div 60

Workers == 1..MaxWorkers
Threads == {MainThread} \cup Workers
ListIds == 1..3
Hours == {RetentionHours, 2 * RetentionHours}

---------------------------------------------------------------------------
(* Values *)

\* a datetime object
Dt(t) == [k |-> "datetime", t |-> t]
\* datetime.isoformat(): a str holding the same instant
isoformat(d) == [k |-> "str", t |-> d.t]
\* datetime.fromisoformat(): the datetime a str denotes
fromisoformat(s) == [k |-> "datetime", t |-> s.t]
NoTime == [k |-> "none", t |-> 0]
NoData == [fetch_time |-> NoTime, id |-> 0]

\* Python's a > b raises TypeError unless both operands are datetime objects
TypeError(a, b) == a.k # "datetime" \/ b.k # "datetime"
Gt(a, b) == a.t > b.t

\* datetime.now() - timedelta(hours=h)
Cutoff(t, h) == Dt(t - h * 60)

---------------------------------------------------------------------------
(* The history store: pure parts of RealTimeUpdater *)

\* os.path.exists, open and json.load of load_historical_data: the path holds
\* no file ("missing"), a file that cannot be opened or read ("unreadable"),
\* text that is not JSON ("invalid"), or a JSON list ("json")
FileStates == {"missing", "unreadable", "invalid", "json"}
exists(h) == h # "missing"
json_load_raises(h) == h \in {"unreadable", "invalid"}

\* item['timestamp'] raises KeyError when the key is missing, fromisoformat
\* raises ValueError on a str that is no ISO date, and the comparison with the
\* naive cutoff raises TypeError on a date that carries a UTC offset
item_raises(item) == item.timestamp.k # "str"
loop_raises(f) == \E i \in 1..Len(f) : item_raises(f[i])

\* load_historical_data with >= in place of >
load_keeps_boundary(h, f, t) ==
    IF ~exists(h) \/ json_load_raises(h) \/ loop_raises(f)
    THEN <<>>
    ELSE SelectSeq(f, LAMBDA item :
             fromisoformat(item.timestamp).t >= Cutoff(t, RetentionHours).t)

\* load_historical_data returning, from its handler, the entries it had
\* filtered before the exception
load_partial(h, f, t) ==
    IF ~exists(h) \/ json_load_raises(h)
    THEN <<>>
    ELSE LET bad == {i \in 1..Len(f) : item_raises(f[i])}
             n == IF bad = {} THEN Len(f)
                  ELSE (CHOOSE i \in bad : \A j \in bad : i <= j) - 1
         IN SelectSeq(SubSeq(f, 1, n), LAMBDA item :
                Gt(fromisoformat(item.timestamp), Cutoff(t, RetentionHours)))

\* load_historical_data: [] when there is no file; [] from the handler when
\* open, json.load or any item of the loop raises; otherwise the items of the
\* file whose parsed timestamp is later than the cutoff, each kept as read,
\* its timestamp still a str
load_historical_data(h, f, t) ==
    IF ~exists(h) \/ json_load_raises(h) \/ loop_raises(f)
    THEN <<>>
    ELSE SelectSeq(f, LAMBDA item :
             Gt(fromisoformat(item.timestamp), Cutoff(t, RetentionHours)))

\* _convert_datetimes_to_strings applied to the 'data' of an item
convert_datetimes_to_strings(d) ==
    IF d.fetch_time.k = "datetime"
    THEN [d EXCEPT !.fetch_time = isoformat(d.fetch_time)]
    ELSE d

\* save_historical_data: the list of serializable items written to the file
serializable_data(h) ==
    [i \in 1..Len(h) |->
        [timestamp |-> IF h[i].timestamp.k = "datetime"
                       THEN isoformat(h[i].timestamp)
                       ELSE h[i].timestamp,
         data |-> convert_datetimes_to_strings(h[i].data)]]

\* the prune comprehension of fetch_and_store_data raises TypeError as soon as
\* it compares an item whose timestamp is not a datetime
prune_raises(h, t) ==
    \E i \in 1..Len(h) : TypeError(h[i].timestamp, Cutoff(t, RetentionHours))

\* the list the prune comprehension builds
prune(h, t) ==
    SelectSeq(h, LAMBDA item : Gt(item.timestamp, Cutoff(t, RetentionHours)))

\* the comprehension of get_historical_data
window_raises(h, t, hours) ==
    \E i \in 1..Len(h) : TypeError(h[i].timestamp, Cutoff(t, hours))

window(h, t, hours) ==
    SelectSeq(h, LAMBDA item : Gt(item.timestamp, Cutoff(t, hours)))

\* get_latest_data reading historical_data[0]
get_first_data(h) == IF Len(h) > 0 THEN h[1].data ELSE NoData

\* get_latest_data: historical_data[-1]['data'], or None
get_latest_data(h) == IF Len(h) > 0 THEN h[Len(h)].data ELSE NoData

---------------------------------------------------------------------------
(* The heap of list objects *)

\* a list object no reference reaches is dropped
Gc(ls, roots) == [i \in ListIds |-> IF i \in roots THEN ls[i] ELSE <<>>]
\* the list object a new list is allocated at
Fresh(roots) == CHOOSE i \in ListIds : i \notin roots

\* get_historical_data returning self.historical_data itself
result_alias(self_list, new) == self_list

\* the list object get_historical_data returns: a new list
result_list(self_list, new) == new

NoRead == [st |-> "idle", op |-> "none", hours |-> 0, ref |-> 0,
           data |-> NoData, raised |-> FALSE]

---------------------------------------------------------------------------
(* HKODataFetcher: one call of fetch_all_data *)

\* an answer of the network: a failed request, or a page
Failed == [fail |-> TRUE]
Resources == {"weather", "rainfall", "warnings"}
NoNet == [r \in Resources |-> Failed]

\* first regex match of a list of matches, as a float or None
FirstOf(matches) == IF matches = <<>> THEN <<>> ELSE <<Head(matches)>>

\* fetch_current_weather: the except branch returns {'timestamp', 'error'}
fetch_current_weather(resp, t) ==
    IF resp.fail
    THEN [timestamp |-> Dt(t), error |-> "error"]
    ELSE [timestamp |-> Dt(t),
          temperature |-> FirstOf(resp.temps),
          humidity |-> FirstOf(resp.hums),
          rainfall_status |->
              IF {"yu", "zhouyu"} \cap resp.words # {} THEN "raining"
              ELSE IF "duoyun" \in resp.words THEN "cloudy"
              ELSE IF "tianqing" \in resp.words THEN "sunny"
              ELSE "unknown",
          weather_conditions |-> <<>>]

\* Chinese text is written in pinyin here: yu (rain), zhouyu (showers), duoyun
\* (cloudy), tianqing (fine), leibao jinggao (thunderstorm warning), baoyu
\* jinggao (rainstorm warning), zhi (to), haomi (millimetres), and the
\* districts ZhongXiQu, BeiQu, DongQu, XiGong, ShaTian.
\*
\* re.findall(patterns[p], text_content): the items of the text the pattern
\* matches, in text order.  An item of the text is a district name followed
\* by one number, or by two numbers with or without zhi between them, and
\* haomi.
\*   1: a name made of the compass characters (zhong xi dong nan bei) and an
\*      optional qu, one number, haomi
\*   2: such a name, a number, zhi, a number, haomi
\*   3: a name of the list (JiuLongCheng, ..., XiGong, ShaTian, ...), a
\*      number, an optional zhi, an optional number, haomi
CompassNames == {"ZhongXiQu", "BeiQu", "DongQu "}
ListedNames == {"XiGong", "ShaTian"}
\* patterns[2] without its optional second number
matches_no_range(p, item) ==
    CASE p = 1 -> item.name \in CompassNames /\ item.hi = <<>> /\ ~item.to
      [] p = 2 -> item.name \in CompassNames /\ item.hi # <<>> /\ item.to
      [] p = 3 -> item.name \in ListedNames /\ item.hi = <<>>

matches_pattern(p, item) ==
    CASE p = 1 -> item.name \in CompassNames /\ item.hi = <<>> /\ ~item.to
      [] p = 2 -> item.name \in CompassNames /\ item.hi # <<>> /\ item.to
      [] p = 3 -> item.name \in ListedNames
findall(p, text) == SelectSeq(text, LAMBDA item : matches_pattern(p, item))

\* region.strip()
strip(name) == IF name = "DongQu " THEN "DongQu" ELSE name

\* reading with the average of a range taken by integer division
reading_floor(p, m) ==
    IF p = 1 \/ m.hi = <<>>
    THEN [min_rainfall |-> m.lo, max_rainfall |-> m.lo,
          average_rainfall |-> [n |-> m.lo, d |-> 1]]
    ELSE [min_rainfall |-> m.lo, max_rainfall |-> m.hi[1],
          average_rainfall |-> [n |-> (m.lo + m.hi[1]) \div 2, d |-> 1]]

\* the reading stored for one match: a match of pattern 1 has two groups, a
\* match of pattern 2 or 3 has three and the last may be empty.  Averages
\* are kept as fractions n/d.
reading(p, m) ==
    IF p = 1 \/ m.hi = <<>>
    THEN [min_rainfall |-> m.lo, max_rainfall |-> m.lo,
          average_rainfall |-> [n |-> m.lo, d |-> 1]]
    ELSE [min_rainfall |-> m.lo, max_rainfall |-> m.hi[1],
          average_rainfall |-> [n |-> m.lo + m.hi[1], d |-> 2]]

\* the loop over the matches keeping the first reading of a region
RECURSIVE store_first(_, _, _)
store_first(regions, p, ms) ==
    IF ms = <<>> THEN regions
    ELSE store_first(regions @@ (strip(Head(ms).name) :> reading(p, Head(ms))),
                     p, Tail(ms))

\* for match in matches: rainfall_data['regions'][region.strip()] = {...}
RECURSIVE store_matches(_, _, _)
store_matches(regions, p, ms) ==
    IF ms = <<>> THEN regions
    ELSE store_matches((strip(Head(ms).name) :> reading(p, Head(ms))) @@ regions,
                       p, Tail(ms))

\* for pattern in patterns: ...
parse_regions(text) ==
    store_matches(store_matches(store_matches(<<>>, 1, findall(1, text)),
                                2, findall(2, text)),
                  3, findall(3, text))

\* the sum of the max_rainfall of the regions, in halves
RECURSIVE sum_max(_, _)
sum_max(regions, names) ==
    IF names = {} THEN 0
    ELSE LET x == CHOOSE x \in names : TRUE
         IN 2 * regions[x].max_rainfall + sum_max(regions, names \ {x})

\* sum(avg_values), in halves
RECURSIVE sum_halves(_, _)
sum_halves(regions, names) ==
    IF names = {} THEN 0
    ELSE LET x == CHOOSE x \in names : TRUE
             a == regions[x].average_rainfall
         IN (a.n * 2) \div a.d + sum_halves(regions, names \ {x})

\* fetch_rainfall_data answering a failure with an empty report
fetch_rainfall_default(resp, t) ==
    IF resp.fail
    THEN [timestamp |-> Dt(t), regions |-> <<>>, total_regions |-> 0,
          average_rainfall |-> [n |-> 0, d |-> 1]]
    ELSE [timestamp |-> Dt(t), regions |-> parse_regions(resp.text),
          total_regions |-> Cardinality(DOMAIN parse_regions(resp.text)),
          average_rainfall |-> [n |-> 0, d |-> 1]]

\* fetch_rainfall_data
fetch_rainfall_data(resp, t) ==
    IF resp.fail
    THEN [timestamp |-> Dt(t), error |-> "error"]
    ELSE LET regions == parse_regions(resp.text)
             count == Cardinality(DOMAIN regions)
         IN [timestamp |-> Dt(t),
             regions |-> regions,
             total_regions |-> count,
             average_rainfall |->
                 IF count > 0
                 THEN [n |-> sum_halves(regions, DOMAIN regions), d |-> 2 * count]
                 ELSE [n |-> 0, d |-> 1]]

\* the loop over the warning images: each marker appends its kind and sets
\* the level
RECURSIVE scan_markers(_, _)
scan_markers(w, srcs) ==
    IF srcs = <<>> THEN w
    ELSE LET src == Head(srcs)
             w1 == IF "ts" \in src
                   THEN [w EXCEPT !.active_warnings = Append(@, "thunderstorm"),
                                  !.warning_level = "high"]
                   ELSE IF "rain" \in src
                   THEN [w EXCEPT !.active_warnings = Append(@, "heavy_rain"),
                                  !.warning_level = "medium"]
                   ELSE IF "wind" \in src
                   THEN [w EXCEPT !.active_warnings = Append(@, "strong_wind"),
                                  !.warning_level = "medium"]
                   ELSE w
         IN scan_markers(w1, Tail(srcs))

InList(x, l) == \E i \in 1..Len(l) : l[i] = x

\* a keyword check that leaves the level the markers have set
scan_keyword_keeps(w, words, word, kind) ==
    IF word \in words
    THEN [w EXCEPT !.active_warnings = IF InList(kind, @) THEN @ ELSE Append(@, kind),
                   !.warning_level = IF @ = "none" THEN "high" ELSE @]
    ELSE w

\* the keyword checks on the text of the page
scan_keyword(w, words, word, kind) ==
    IF word \in words
    THEN [w EXCEPT !.active_warnings = IF InList(kind, @) THEN @ ELSE Append(@, kind),
                   !.warning_level = "high"]
    ELSE w

\* fetch_weather_warnings
fetch_weather_warnings(resp, t) ==
    IF resp.fail
    THEN [timestamp |-> Dt(t), error |-> "error"]
    ELSE scan_keyword(
            scan_keyword(
               scan_markers([timestamp |-> Dt(t), active_warnings |-> <<>>,
                             warning_level |-> "none"], resp.markers),
               resp.words, "leibao_jinggao", "thunderstorm"),
            resp.words, "baoyu_jinggao", "heavy_rain")

\* the pages the model draws the answers from
WeatherPages ==
    {[fail |-> FALSE, temps |-> ts, hums |-> hs, words |-> ws] :
        ts \in {<<>>, <<25, 30>>}, hs \in {<<>>, <<80>>},
        ws \in {{}, {"yu", "duoyun"}, {"duoyun", "tianqing"}, {"tianqing"}}}
Items ==
    {[name |-> nm, lo |-> lo, hi |-> hi, to |-> to] :
        nm \in {"ZhongXiQu", "XiGong", "DongQu "}, lo \in {0, 1, 5},
        hi \in {<<>>, <<1>>, <<5>>}, to \in BOOLEAN}
\* the items that stand second in a text of two items
SecondItems ==
    {[name |-> "XiGong", lo |-> 0, hi |-> <<5>>, to |-> TRUE],
     [name |-> "ZhongXiQu", lo |-> 1, hi |-> <<>>, to |-> FALSE],
     [name |-> "ZhongXiQu", lo |-> 0, hi |-> <<5>>, to |-> TRUE]}
RainfallPages ==
    {[fail |-> FALSE, text |-> <<>>]}
    \cup {[fail |-> FALSE, text |-> <<i>>] : i \in Items}
    \cup {[fail |-> FALSE, text |-> <<i, j>>] : i \in Items, j \in SecondItems}
WarningPages ==
    {[fail |-> FALSE, markers |-> ms, words |-> ws] :
        ms \in {<<>>, <<{"ts"}>>, <<{"wind"}>>, <<{"rain"}>>,
                <<{"ts"}, {"wind"}>>, <<{"wind"}, {"ts"}>>, <<{"ts"}, {"ts"}>>},
        ws \in {{}, {"baoyu_jinggao"}, {"leibao_jinggao"}}}

---------------------------------------------------------------------------
Init ==
    /\ now = 0
    /\ update_interval \in 1..MaxInterval
    /\ is_running = FALSE
    /\ update_thread = 0
    /\ jobs = {}
    /\ pc = [t \in Threads |-> IF t = MainThread THEN "idle" ELSE "none"]
    /\ cur = [t \in Threads |-> NoData]
    /\ cutoff_time = [t \in Threads |-> NoTime]
    /\ filt = [t \in Threads |-> <<>>]
    /\ job = [t \in Threads |-> 0]
    /\ wake = [t \in Threads |-> 0]
    /\ lists = [i \in ListIds |-> <<>>]
    /\ historical_data = 1
    /\ file = <<>>
    /\ historical_file = "missing"
    /\ readers \in {0, 1}
    /\ rd = NoRead
    /\ appended = <<>>
    /\ just_done = "no"
    /\ runs = 0
    /\ nworkers = 0
    /\ ticks = 0
    /\ jumps = 0
    /\ restarts = 0
    /\ net = NoNet
    /\ fpc = "off"
    /\ requested = {}
    /\ all_data = <<>>

\* groups of variables, for the frame conditions
fetching == <<net, fpc, requested, all_data>>
config == <<update_interval, readers, fetching>>
clock == <<now, ticks, jumps>>
locals == <<cur, cutoff_time, filt>>
control == <<pc, job, wake, update_thread, nworkers, jobs>>
store == <<lists, historical_data, file, historical_file>>

---------------------------------------------------------------------------
(* fetch_and_store_data, step by step, run by thread t *)

\* the end of the call: start_background_updates goes on to start the worker
\* thread; in a worker, Job.run reschedules the job, run_pending returns and
\* the loop sleeps
Finish(t) ==
    /\ IF t = MainThread
       THEN /\ pc' = [pc EXCEPT ![t] = "idle", ![nworkers + 1] = "wait"]
            /\ wake' = [wake EXCEPT ![nworkers + 1] = now]
            /\ update_thread' = nworkers + 1
            /\ nworkers' = nworkers + 1
            /\ UNCHANGED <<jobs, job>>
       ELSE /\ pc' = [pc EXCEPT ![t] = "wait"]
            /\ wake' = [wake EXCEPT ![t] = now + SleepTime]
            /\ jobs' = {IF j.id = job[t]
                        THEN [j EXCEPT !.next_run = now + update_interval]
                        ELSE j : j \in jobs}
            /\ job' = [job EXCEPT ![t] = 0]
            /\ UNCHANGED <<update_thread, nworkers>>
    /\ cur' = [cur EXCEPT ![t] = NoData]
    /\ cutoff_time' = [cutoff_time EXCEPT ![t] = NoTime]
    /\ just_done' = IF now - cur[t].fetch_time.t >= update_interval
                    THEN "long"
                    ELSE IF just_done = "long" THEN "long" ELSE "short"

\* fetch_and_store_data without its handler: the error leaves the call and
\* ends the thread that made it
on_exception_propagates(t) ==
    /\ pc' = [pc EXCEPT ![t] = "crashed"]
    /\ cur' = [cur EXCEPT ![t] = NoData]
    /\ cutoff_time' = [cutoff_time EXCEPT ![t] = NoTime]
    /\ UNCHANGED <<wake, update_thread, nworkers, jobs, job, just_done>>

\* except Exception as e: logger.error(...): the error is logged and the call
\* returns normally
on_exception(t) == Finish(t)

\* current_data = self.fetcher.fetch_all_data()
Fetch(t) ==
    /\ pc[t] = "fetch"
    /\ runs < RunBudget
    /\ runs' = runs + 1
    /\ cur' = [cur EXCEPT ![t] = [fetch_time |-> Dt(now), id |-> runs + 1]]
    /\ pc' = [pc EXCEPT ![t] = "append"]
    /\ UNCHANGED <<config, clock, store, is_running, update_thread, jobs,
                   cutoff_time, filt, job, wake, rd, appended, just_done,
                   nworkers, restarts>>

\* self.historical_data.append({...}): in place
AppendEntry(t) ==
    /\ pc[t] = "append"
    /\ lists' = [lists EXCEPT ![historical_data] =
           Append(@, [timestamp |-> cur[t].fetch_time, data |-> cur[t]])]
    /\ appended' = Append(appended, cur[t].id)
    /\ pc' = [pc EXCEPT ![t] = "prune"]
    /\ UNCHANGED <<config, clock, locals, is_running, update_thread, jobs, job,
                   wake, historical_data, file, historical_file, rd, just_done,
                   runs, nworkers, restarts>>

\* cutoff_time = datetime.now() - timedelta(hours=24), then the comprehension
\* [item for item in self.historical_data if ...]; a TypeError leaves the try
\* block for the handler
Prune(t) ==
    /\ pc[t] = "prune"
    /\ IF prune_raises(lists[historical_data], now)
       THEN /\ on_exception(t)
            /\ UNCHANGED filt
       ELSE /\ cutoff_time' = [cutoff_time EXCEPT ![t] = Cutoff(now, RetentionHours)]
            /\ filt' = [filt EXCEPT ![t] = prune(lists[historical_data], now)]
            /\ pc' = [pc EXCEPT ![t] = "assign"]
            /\ UNCHANGED <<cur, update_thread, jobs, job, wake, nworkers,
                           just_done>>
    /\ UNCHANGED <<config, clock, store, is_running, rd, appended, runs,
                   restarts>>

\* self.historical_data = <the new list>
Assign(t) ==
    /\ pc[t] = "assign"
    /\ LET new == Fresh({historical_data, rd.ref})
       IN /\ historical_data' = new
          /\ lists' = Gc([lists EXCEPT ![new] = filt[t]], {new, rd.ref})
    /\ filt' = [filt EXCEPT ![t] = <<>>]
    /\ pc' = [pc EXCEPT ![t] = "save"]
    /\ UNCHANGED <<config, clock, is_running, update_thread, jobs, cur,
                   cutoff_time, job, wake, file, historical_file, rd, appended,
                   just_done, runs, nworkers, restarts>>

\* a save step that takes the new entry back when the write fails
SaveRollsBack(t) ==
    /\ pc[t] = "save"
    /\ \E written \in BOOLEAN :
          IF written
          THEN /\ file' = serializable_data(lists[historical_data])
               /\ historical_file' = "json"
               /\ UNCHANGED lists
          ELSE /\ UNCHANGED <<file, historical_file>>
               /\ lists' = [lists EXCEPT ![historical_data] =
                               SubSeq(@, 1, Len(@) - 1)]
    /\ Finish(t)
    /\ UNCHANGED <<config, clock, is_running, filt, historical_data, rd,
                   appended, runs, restarts>>

\* save_data_to_file, save_historical_data and create_latest_visualizations:
\* each catches its own errors; a failed write leaves the file as it was
Save(t) ==
    /\ pc[t] = "save"
    /\ \E written \in BOOLEAN :
          IF written
          THEN /\ file' = serializable_data(lists[historical_data])
               /\ historical_file' = "json"
          ELSE UNCHANGED <<file, historical_file>>
    /\ Finish(t)
    /\ UNCHANGED <<config, clock, is_running, filt, lists, historical_data, rd,
                   appended, runs, restarts>>

Pipeline(t) == Fetch(t) \/ AppendEntry(t) \/ Prune(t) \/ Assign(t) \/ Save(t)

---------------------------------------------------------------------------
(* start_background_updates and stop_background_updates, called by the main
   thread *)

\* the executions a thread is committed to and has not begun: the model lets
\* a thread commit to an execution only while the budget has room for it
Committed ==
    Cardinality({t \in Threads : pc[t] = "fetch"})
    + (IF pc[MainThread] = "start" /\ ~is_running THEN 1 ELSE 0)

StartCall ==
    /\ pc[MainThread] = "idle"
    /\ is_running \/ (nworkers < MaxWorkers /\ runs + Committed < RunBudget)
    /\ pc' = [pc EXCEPT ![MainThread] = "start"]
    /\ UNCHANGED <<config, clock, locals, store, is_running, update_thread,
                   jobs, job, wake, rd, appended, just_done, runs, nworkers,
                   restarts>>

\* if self.is_running: return
StartAlreadyRunning ==
    /\ pc[MainThread] = "start"
    /\ is_running
    /\ pc' = [pc EXCEPT ![MainThread] = "idle"]
    /\ UNCHANGED <<config, clock, locals, store, is_running, update_thread,
                   jobs, job, wake, rd, appended, just_done, runs, nworkers,
                   restarts>>

\* self.is_running = True; schedule.every(n).minutes.do(...); then the initial
\* fetch_and_store_data runs in the calling thread
StartBody ==
    /\ pc[MainThread] = "start"
    /\ ~is_running
    /\ is_running' = TRUE
    /\ jobs' = jobs \cup {[id |-> nworkers + 1, next_run |-> now + update_interval]}
    /\ pc' = [pc EXCEPT ![MainThread] = "fetch"]
    /\ UNCHANGED <<config, clock, locals, store, update_thread, job, wake, rd,
                   appended, just_done, runs, nworkers, restarts>>

\* stop_background_updates that leaves the flag as it is
StopKeepsFlag ==
    /\ pc[MainThread] = "idle"
    /\ jobs' = {}
    /\ pc' = [pc EXCEPT ![MainThread] = IF update_thread # 0 THEN "join" ELSE "idle"]
    /\ UNCHANGED <<config, clock, locals, store, is_running, update_thread, job,
                   wake, rd, appended, just_done, runs, nworkers, restarts>>

\* stop_background_updates that also ends the execution in flight
StopAborts ==
    /\ pc[MainThread] = "idle"
    /\ is_running' = FALSE
    /\ jobs' = {}
    /\ pc' = [t \in Threads |->
                 IF t = MainThread
                 THEN IF update_thread # 0 THEN "join" ELSE "idle"
                 ELSE IF pc[t] \in {"fetch", "append", "prune", "assign", "save"}
                 THEN "dead"
                 ELSE pc[t]]
    /\ UNCHANGED <<config, clock, locals, store, update_thread, job, wake, rd,
                   appended, just_done, runs, nworkers, restarts>>

\* self.is_running = False; schedule.clear(); then join(timeout=5) if a worker
\* thread was ever started
Stop ==
    /\ pc[MainThread] = "idle"
    /\ is_running' = FALSE
    /\ jobs' = {}
    /\ pc' = [pc EXCEPT ![MainThread] = IF update_thread # 0 THEN "join" ELSE "idle"]
    /\ UNCHANGED <<config, clock, locals, store, update_thread, job, wake, rd,
                   appended, just_done, runs, nworkers, restarts>>

\* join(timeout=5) returns when the worker has ended or after five seconds,
\* which is less than one unit of the clock
JoinReturn ==
    /\ pc[MainThread] = "join"
    /\ pc' = [pc EXCEPT ![MainThread] = "idle"]
    /\ UNCHANGED <<config, clock, locals, store, is_running, update_thread,
                   jobs, job, wake, rd, appended, just_done, runs, nworkers,
                   restarts>>

---------------------------------------------------------------------------
(* run_schedule, the loop of a worker thread *)

\* schedule.run_pending(): the jobs whose next_run has come
runnable == {j \in jobs : j.next_run <= now}

\* while self.is_running: schedule.run_pending(); time.sleep(60)
WorkerLoop(t) ==
    /\ pc[t] = "wait"
    /\ now >= wake[t]
    /\ IF ~is_running
       THEN /\ pc' = [pc EXCEPT ![t] = "dead"]
            /\ UNCHANGED <<job, wake>>
       ELSE IF runnable = {}
       THEN /\ wake' = [wake EXCEPT ![t] = now + SleepTime]
            /\ UNCHANGED <<pc, job>>
       ELSE /\ runs + Committed < RunBudget
            /\ \E j \in runnable :
                  job' = [job EXCEPT ![t] = j.id]
            /\ pc' = [pc EXCEPT ![t] = "fetch"]
            /\ UNCHANGED wake
    /\ UNCHANGED <<config, clock, locals, store, is_running, update_thread,
                   jobs, rd, appended, just_done, runs, nworkers, restarts>>

---------------------------------------------------------------------------
(* The clock and the process *)

Alive(t) == pc[t] \notin {"none", "dead"}

\* one minute passes
Tick ==
    /\ ticks < TickBudget
    /\ now' = now + 1
    /\ ticks' = ticks + 1
    /\ just_done' = "no"
    /\ UNCHANGED <<config, locals, control, store, is_running, rd, appended,
                   runs, jumps, restarts>>

\* about a day passes while the updater is stopped and no worker is left
Jump ==
    /\ jumps < MaxJumps
    /\ pc[MainThread] = "idle"
    /\ ~is_running
    /\ \A t \in Workers : ~Alive(t)
    /\ \E d \in {Retention - 1, Retention} : now' = now + d
    /\ jumps' = jumps + 1
    /\ just_done' = "no"
    /\ UNCHANGED <<config, locals, control, store, is_running, rd, appended,
                   runs, ticks, restarts>>

\* the process exits after stop_background_updates (its daemon threads end
\* with it) and a new process constructs a RealTimeUpdater: __init__
Restart ==
    /\ restarts < MaxRestarts
    /\ pc[MainThread] = "idle"
    /\ ~is_running
    /\ restarts' = restarts + 1
    /\ update_thread' = 0
    /\ jobs' = {}
    /\ pc' = [t \in Threads |-> IF t = MainThread THEN "idle"
                                ELSE IF pc[t] = "none" THEN "none" ELSE "dead"]
    /\ cur' = [t \in Threads |-> NoData]
    /\ cutoff_time' = [t \in Threads |-> NoTime]
    /\ filt' = [t \in Threads |-> <<>>]
    /\ job' = [t \in Threads |-> 0]
    /\ wake' = [t \in Threads |-> 0]
    /\ historical_data' = 1
    /\ lists' = [i \in ListIds |->
                    IF i = 1
                    THEN load_historical_data(historical_file, file, now)
                    ELSE <<>>]
    /\ rd' = NoRead
    /\ just_done' = "no"
    /\ UNCHANGED <<config, clock, is_running, file, historical_file, appended,
                   runs, nworkers>>

---------------------------------------------------------------------------
(* A consumer of the read API, in a thread of its own *)

\* get_latest_data()
ReadLatest ==
    /\ readers > 0
    /\ rd.st = "idle"
    /\ rd' = [rd EXCEPT !.st = "returned", !.op = "latest",
                        !.data = get_latest_data(lists[historical_data])]
    /\ UNCHANGED <<config, clock, locals, control, store, is_running, appended,
                   just_done, runs, restarts>>

\* get_historical_data(hours)
ReadHistory ==
    /\ readers > 0
    /\ rd.st = "idle"
    /\ \E h \in Hours :
          IF window_raises(lists[historical_data], now, h)
          THEN /\ rd' = [rd EXCEPT !.st = "returned", !.op = "hist",
                                   !.hours = h, !.raised = TRUE]
               /\ UNCHANGED lists
          ELSE LET new == Fresh({historical_data})
                   ret == result_list(historical_data, new)
               IN /\ rd' = [rd EXCEPT !.st = "returned", !.op = "hist",
                                      !.hours = h, !.ref = ret]
                  /\ lists' = [lists EXCEPT
                         ![new] = window(lists[historical_data], now, h)]
    /\ UNCHANGED <<config, clock, locals, control, is_running, historical_data,
                   file, historical_file, appended, just_done, runs, restarts>>

---------------------------------------------------------------------------
(* One call of fetch_all_data, resource by resource *)

updater == <<now, update_interval, is_running, update_thread, jobs, pc, cur,
             cutoff_time, filt, appended, just_done, job, wake, lists,
             historical_data, file, historical_file, readers, rd, runs,
             nworkers, ticks, jumps, restarts>>

FetchInit ==
    /\ now = 0
    /\ update_interval = 1
    /\ is_running = FALSE
    /\ update_thread = 0
    /\ jobs = {}
    /\ pc = [t \in Threads |-> IF t = MainThread THEN "idle" ELSE "none"]
    /\ cur = [t \in Threads |-> NoData]
    /\ cutoff_time = [t \in Threads |-> NoTime]
    /\ filt = [t \in Threads |-> <<>>]
    /\ job = [t \in Threads |-> 0]
    /\ wake = [t \in Threads |-> 0]
    /\ lists = [i \in ListIds |-> <<>>]
    /\ historical_data = 1
    /\ file = <<>>
    /\ historical_file = "missing"
    /\ readers = 0
    /\ rd = NoRead
    /\ appended = <<>>
    /\ just_done = "no"
    /\ runs = 0
    /\ nworkers = 0
    /\ ticks = 0
    /\ jumps = 0
    /\ restarts = 0
    /\ net \in [Resources -> {Failed}]
               \cup { [weather |-> a, rainfall |-> b, warnings |-> c] :
                        a \in {Failed} \cup WeatherPages,
                        b \in {Failed} \cup RainfallPages,
                        c \in {Failed} \cup WarningPages }
    /\ fpc = "fetch_time"
    /\ requested = {}
    /\ all_data = <<>>

\* 'fetch_time': datetime.now()
FetchTime ==
    /\ fpc = "fetch_time"
    /\ all_data' = [fetch_time |-> Dt(now)]
    /\ fpc' = "current_weather"
    /\ UNCHANGED <<updater, net, requested>>

\* 'current_weather': self.fetch_current_weather()
FetchWeather ==
    /\ fpc = "current_weather"
    /\ requested' = requested \cup {"weather"}
    /\ all_data' = ("current_weather" :> fetch_current_weather(net.weather, now))
                   @@ all_data
    /\ fpc' = "rainfall_data"
    /\ UNCHANGED <<updater, net>>

\* 'rainfall_data': self.fetch_rainfall_data()
FetchRainfall ==
    /\ fpc = "rainfall_data"
    /\ requested' = requested \cup {"rainfall"}
    /\ all_data' = ("rainfall_data" :> fetch_rainfall_data(net.rainfall, now))
                   @@ all_data
    /\ fpc' = "weather_warnings"
    /\ UNCHANGED <<updater, net>>

\* 'weather_warnings': self.fetch_weather_warnings(), then
\* 'district_coordinates' and return all_data
FetchWarnings ==
    /\ fpc = "weather_warnings"
    /\ requested' = requested \cup {"warnings"}
    /\ all_data' = ("weather_warnings" :> fetch_weather_warnings(net.warnings, now))
                   @@ ("district_coordinates" :> "hk_districts")
                   @@ all_data
    /\ fpc' = "returned"
    /\ UNCHANGED <<updater, net>>

FetchNext == FetchTime \/ FetchWeather \/ FetchRainfall \/ FetchWarnings

FetchSpec == FetchInit /\ [][FetchNext]_vars

---------------------------------------------------------------------------
Next ==
    \/ StartCall
    \/ StartAlreadyRunning
    \/ StartBody
    \/ Stop
    \/ JoinReturn
    \/ \E t \in Threads : Pipeline(t)
    \/ \E t \in Workers : WorkerLoop(t)
    \/ Tick
    \/ Jump
    \/ Restart
    \/ ReadLatest
    \/ ReadHistory

Spec == Init /\ [][Next]_vars

---------------------------------------------------------------------------
(* The scheduler alone, with the scheduling the platform gives: a thread
   that can take a step takes it, time passes, join(timeout=5) returns *)

\* time passes while the updater is stopped and a worker is in its sleep
Elapse ==
    /\ ~is_running
    /\ \E t \in Workers : pc[t] = "wait" /\ wake[t] > now
    /\ now' = now + 1
    /\ just_done' = "no"
    /\ UNCHANGED <<config, locals, control, store, is_running, rd, appended,
                   runs, ticks, jumps, restarts>>

LiveInit == Init /\ readers = 0

LiveNext ==
    \/ StartCall
    \/ StartAlreadyRunning
    \/ StartBody
    \/ Stop
    \/ JoinReturn
    \/ \E t \in Threads : Pipeline(t)
    \/ \E t \in Workers : WorkerLoop(t)
    \/ Tick
    \/ Elapse

Fairness ==
    /\ \A t \in Threads : WF_vars(Pipeline(t))
    /\ \A t \in Workers : WF_vars(WorkerLoop(t))
    /\ WF_vars(JoinReturn)
    /\ WF_vars(Elapse)

LiveSpec == LiveInit /\ [][LiveNext]_vars /\ Fairness

---------------------------------------------------------------------------
(* Two RealTimeUpdater objects in one process.  The schedule module keeps
   one job list for the process; the other updater is running, its job is
   registered, and its store is not part of this model *)

\* the job of the other updater and its update_interval
OtherJob == 0
OtherInterval == 1

TwoInit ==
    /\ now = 0
    /\ update_interval = 1
    /\ is_running = FALSE
    /\ update_thread = 0
    /\ jobs = {[id |-> OtherJob, next_run |-> OtherInterval]}
    /\ pc = [t \in Threads |-> IF t = MainThread THEN "idle" ELSE "none"]
    /\ cur = [t \in Threads |-> NoData]
    /\ cutoff_time = [t \in Threads |-> NoTime]
    /\ filt = [t \in Threads |-> <<>>]
    /\ job = [t \in Threads |-> 0]
    /\ wake = [t \in Threads |-> 0]
    /\ lists = [i \in ListIds |-> <<>>]
    /\ historical_data = 1
    /\ file = <<>>
    /\ historical_file = "missing"
    /\ readers = 0
    /\ rd = NoRead
    /\ appended = <<>>
    /\ just_done = "no"
    /\ runs = 0
    /\ nworkers = 0
    /\ ticks = 0
    /\ jumps = 0
    /\ restarts = 0
    /\ net = NoNet
    /\ fpc = "off"
    /\ requested = {}
    /\ all_data = <<>>

\* the other updater's job, when run_pending finds it due
OtherDue == {j \in jobs : j.id = OtherJob /\ j.next_run <= now}

\* Job.run of the other updater's job: its pipeline runs on its own store and
\* the job is scheduled again
run_other(js) ==
    {IF j \in OtherDue THEN [j EXCEPT !.next_run = now + OtherInterval] ELSE j :
        j \in js}

\* run_pending in the other updater's worker thread
OtherWorker ==
    /\ OtherDue # {}
    /\ jobs' = run_other(jobs)
    /\ UNCHANGED <<config, clock, locals, store, is_running, update_thread, pc,
                   job, wake, rd, appended, just_done, runs, nworkers,
                   restarts>>

\* run_pending in a worker of this updater runs every due job of the
\* process, the other updater's included
RunOtherJob(t) ==
    /\ pc[t] = "wait"
    /\ now >= wake[t]
    /\ is_running
    /\ OtherDue # {}
    /\ jobs' = run_other(jobs)
    /\ UNCHANGED <<config, clock, locals, store, is_running, update_thread, pc,
                   job, wake, rd, appended, just_done, runs, nworkers,
                   restarts>>

\* the rest of the worker loop, once the other updater's job is not due
OwnJobs(t) ==
    /\ ~is_running \/ OtherDue = {}
    /\ WorkerLoop(t)

TwoNext ==
    \/ StartCall
    \/ StartAlreadyRunning
    \/ StartBody
    \/ Stop
    \/ JoinReturn
    \/ \E t \in Threads : Pipeline(t)
    \/ \E t \in Workers : OwnJobs(t)
    \/ \E t \in Workers : RunOtherJob(t)
    \/ OtherWorker
    \/ Tick

TwoSpec == TwoInit /\ [][TwoNext]_vars

---------------------------------------------------------------------------
(* The constructor over any history file: the file at the path was left by an
   earlier process or written by hand *)

\* the 'timestamp' of an entry json.load returns: an ISO str at or just after
\* now minus 24 hours, a str that is no ISO date, an ISO str with a UTC offset,
\* or no such key
FileTimestamps ==
    {[k |-> "str", t |-> 0 - Retention], [k |-> "str", t |-> 1 - Retention],
     [k |-> "malformed", t |-> 0], [k |-> "aware", t |-> 1 - Retention], NoTime}
FileItems ==
    {[timestamp |-> ts, data |-> [fetch_time |-> ts, id |-> 1]] :
        ts \in FileTimestamps}
Files == UNION {[1..n -> FileItems] : n \in 0..MaxFileLen}

LoadInit ==
    /\ now = 0
    /\ update_interval = 1
    /\ is_running = FALSE
    /\ update_thread = 0
    /\ jobs = {}
    /\ pc = [t \in Threads |-> IF t = MainThread THEN "idle" ELSE "none"]
    /\ cur = [t \in Threads |-> NoData]
    /\ cutoff_time = [t \in Threads |-> NoTime]
    /\ filt = [t \in Threads |-> <<>>]
    /\ job = [t \in Threads |-> 0]
    /\ wake = [t \in Threads |-> 0]
    /\ lists = [i \in ListIds |-> <<>>]
    /\ historical_data = 1
    /\ historical_file \in FileStates
    /\ file \in IF historical_file = "json" THEN Files ELSE {<<>>}
    /\ readers = 0
    /\ rd = NoRead
    /\ appended = <<>>
    /\ just_done = "no"
    /\ runs = 0
    /\ nworkers = 0
    /\ ticks = 0
    /\ jumps = 0
    /\ restarts = 0
    /\ net = NoNet
    /\ fpc = "off"
    /\ requested = {}
    /\ all_data = <<>>

LoadNext == Restart \/ Tick

LoadSpec == LoadInit /\ [][LoadNext]_vars

---------------------------------------------------------------------------
(* Properties *)

\* the list self.historical_data refers to
Hist == lists[historical_data]
\* thread t is inside fetch_and_store_data, its fetch done
Executing(t) == pc[t] \in {"append", "prune", "assign", "save"}
\* this step ends the fetch_and_store_data call of thread t
Completes(t) == Executing(t) /\ ~Executing(t)' /\ restarts' = restarts
\* this step is a call of get_historical_data / of get_latest_data
ReadsHistory == rd.st = "idle" /\ rd'.st = "returned" /\ rd'.op = "hist"
ReadsLatest == rd.st = "idle" /\ rd'.st = "returned" /\ rd'.op = "latest"
\* the place of a snapshot in the order of the appends
Pos(id) == CHOOSE i \in 1..Len(appended) : appended[i] = id

\* C1: at most one execution of fetch_and_store_data is in flight, in every
\* reachable state, whatever the interleaving of start, stop and ticks.
C1_AtMostOneInFlight ==
    Cardinality({t \in Threads : Executing(t)}) <= 1

\* C2: when a fetch_and_store_data call completes, no entry of
\* historical_data has a timestamp older than the cutoff (now minus 24 hours)
\* that call evaluated.
C2_NoExpiredAfterAppend ==
    [][\A t \in Threads : Completes(t) =>
          LET cutoff == IF pc[t] = "prune" THEN now - Retention
                        ELSE cutoff_time[t].t
          IN \A i \in 1..Len(Hist') : Hist'[i].timestamp.t >= cutoff]_vars

\* C3: load_historical_data keeps exactly the entries of the file whose
\* timestamp is later than now minus 24 hours, in file order, and this is the
\* selection the prune step makes of the same entries.
C3_LoadFiltersLikePrune ==
    [][restarts' # restarts =>
          /\ Hist' = SelectSeq(file, LAMBDA e : e.timestamp.t > now - 24 * 60)
          /\ Hist' = serializable_data(
                 prune([i \in 1..Len(file) |->
                           [file[i] EXCEPT !.timestamp = fromisoformat(@)]],
                       now))]_vars

\* C3 witness: a restart has loaded a file of two entries, dropped the one
\* whose timestamp is exactly now minus 24 hours and kept the later one.
C3_Witness ==
    /\ restarts = 1
    /\ pc[MainThread] = "idle"
    /\ ~is_running
    /\ appended = <<1, 2>>
    /\ Len(file) = 2
    /\ file[1].timestamp.t = now - Retention
    /\ Hist = <<file[2]>>

\* C4: get_historical_data(hours) returns exactly the stored entries with
\* timestamp > now - hours, in stored order, and leaves historical_data as it
\* was, for every store the program reaches.
C4_WindowOfStore ==
    [][ReadsHistory =>
          /\ ~rd'.raised
          /\ lists'[rd'.ref] =
                 SelectSeq(Hist, LAMBDA e : e.timestamp.t > now - rd'.hours * 60)
          /\ Hist' = Hist]_vars

\* C5: get_latest_data returns None exactly when the history is empty, and
\* otherwise the snapshot of the entry of the history that was appended last.
C5_LatestIsLastAppended ==
    [][ReadsLatest =>
          /\ (rd'.data = NoData) <=> (Len(Hist) = 0)
          /\ Len(Hist) > 0 =>
                \E i \in 1..Len(Hist) :
                   /\ rd'.data = Hist[i].data
                   /\ \A k \in 1..Len(Hist) :
                         Pos(Hist[k].data.id) <= Pos(Hist[i].data.id)]_vars

\* C5 witness: get_latest_data has returned the second of two stored
\* snapshots.
C5_Witness ==
    /\ rd.st = "returned"
    /\ rd.op = "latest"
    /\ Len(Hist) = 2
    /\ rd.data = Hist[2].data
    /\ rd.data.id = 2

\* C6: a get_historical_data call never returns the intermediate history, in
\* which the entry of an execution that has not pruned yet stands beside an
\* entry that prune removes.
C6_NoIntermediateRead ==
    [][(ReadsHistory /\ ~rd'.raised) =>
          LET ret == lists'[rd'.ref]
          IN ~ \E t \in Threads :
                /\ pc[t] \in {"prune", "assign"}
                /\ \E i \in 1..Len(ret) : ret[i].data.id = cur[t].id
                /\ \E i \in 1..Len(ret) :
                      ret[i].timestamp.t <= now - Retention]_vars

\* C7: the list a get_historical_data call returned keeps its length and its
\* elements through every later step of the program.
C7_ResultIsStable ==
    [][(rd.st = "returned" /\ rd.op = "hist" /\ ~rd.raised /\ rd' = rd) =>
          lists'[rd.ref] = lists[rd.ref]]_vars

\* C7 witness: after a get_historical_data call returned a non-empty list,
\* a later snapshot has been appended to the history.
C7_Witness ==
    /\ rd.st = "returned"
    /\ rd.op = "hist"
    /\ ~rd.raised
    /\ Len(lists[rd.ref]) > 0
    /\ Len(Hist) > 0
    /\ \A i \in 1..Len(lists[rd.ref]) :
          lists[rd.ref][i].data.id < Hist[Len(Hist)].data.id

\* C8: no tick-driven execution starts in the minute in which an execution
\* that lasted an interval or longer has ended: the ticks that came due
\* during it are dropped, not run as a backlog.
C8_NoBacklog ==
    [][\A t \in Workers :
          (pc[t] = "wait" /\ pc'[t] = "fetch") => just_done # "long"]_vars

\* C9: an error inside fetch_and_store_data (the TypeError of the prune step)
\* ends the call normally: start_background_updates goes on to start the
\* worker, a worker goes on with its loop and its job is scheduled again.
C9_ErrorsAreCaught ==
    [][\A t \in Threads :
          (/\ pc[t] = "prune"
           /\ pc'[t] # "prune"
           /\ restarts' = restarts
           /\ \E i \in 1..Len(Hist) : Hist[i].timestamp.k # "datetime") =>
          IF t = MainThread
          THEN /\ pc'[t] = "idle"
               /\ is_running'
               /\ update_thread' # update_thread
               /\ pc'[update_thread'] = "wait"
          ELSE /\ pc'[t] = "wait"
               /\ \A j \in jobs' :
                     j.id = job[t] => j.next_run = now + update_interval]_vars

\* C9 witness: after the initial execution failed on a loaded entry, a
\* worker is running a tick-driven execution.
C9_Witness ==
    /\ restarts = 1
    /\ Len(Hist) = 3
    /\ Hist[1].timestamp.k = "str"
    /\ Hist[2].timestamp.k = "datetime"
    /\ \E t \in Workers : pc[t] = "prune" /\ cur[t].id = Hist[3].data.id

\* the key of all_data a resource fills
FacetOf(r) ==
    CASE r = "weather" -> "current_weather"
      [] r = "rainfall" -> "rainfall_data"
      [] r = "warnings" -> "weather_warnings"
\* the data fields of a facet
FieldsOf(r) ==
    CASE r = "weather" -> {"temperature", "humidity", "rainfall_status",
                           "weather_conditions"}
      [] r = "rainfall" -> {"regions", "total_regions", "average_rainfall"}
      [] r = "warnings" -> {"active_warnings", "warning_level"}

\* C10: fetch_all_data requests all three resources whichever of them fail;
\* in its result exactly the failed facets are {'timestamp', 'error'} and
\* exactly the others carry their data fields and no error.
C10_PartialFailure ==
    fpc = "returned" =>
        /\ requested = Resources
        /\ \A r \in Resources :
              LET keys == DOMAIN all_data[FacetOf(r)]
              IN IF net[r].fail
                 THEN keys = {"timestamp", "error"}
                 ELSE keys = {"timestamp"} \cup FieldsOf(r)

\* C10 witness: the warnings request failed, the rainfall request did not,
\* and the rainfall report holds a region.
C10_Witness ==
    /\ fpc = "returned"
    /\ net.warnings.fail
    /\ ~net.rainfall.fail
    /\ ~net.weather.fail
    /\ "error" \in DOMAIN all_data.weather_warnings
    /\ all_data.rainfall_data.total_regions = 1

\* the positions of a thread inside fetch_and_store_data
Stages == {"fetch", "append", "prune", "assign", "save"}
\* the positions a thread at position s of the pipeline moves to
StageAfter(s) ==
    CASE s = "fetch" -> {"append"}
      [] s = "append" -> {"prune"}
      [] s = "prune" -> {"assign", "wait"}
      [] s = "assign" -> {"save"}
      [] s = "save" -> {"wait"}

\* C11: start_background_updates on an updater that is not running sets
\* is_running, registers the job one interval ahead and runs the pipeline
\* at once in the caller; no tick-driven execution begins before that
\* initial execution has returned.
C11_InitialExecutionFirst ==
    [][/\ (pc[MainThread] = "start" /\ ~is_running
              /\ pc'[MainThread] # "start") =>
             /\ is_running'
             /\ pc'[MainThread] = "fetch"
             /\ \A j \in jobs' \ jobs : j.next_run = now + update_interval
       /\ \A t \in Workers :
             (pc[t] = "wait" /\ pc'[t] = "fetch") =>
                /\ pc[MainThread] \notin Stages
                /\ \A j \in jobs : j.id = job'[t] => j.next_run <= now]_vars

\* C12: stop_background_updates leaves an execution in flight as it is, and
\* after it the execution goes on stage by stage: the entry is appended, the
\* list pruned and the file written; a worker ends only from its sleep,
\* where it reads is_running.
C12_StopNeverAborts ==
    [][restarts' = restarts =>
         \A t \in Workers :
            /\ pc[t] \in Stages =>
                  /\ pc'[t] \in {pc[t]} \cup StageAfter(pc[t])
                  /\ (is_running /\ ~is_running') =>
                        /\ pc'[t] = pc[t]
                        /\ cur'[t] = cur[t]
                        /\ lists' = lists
                        /\ file' = file
                  /\ (~is_running /\ pc[t] = "append" /\ pc'[t] = "prune") =>
                        Hist' = Append(Hist, [timestamp |-> cur[t].fetch_time,
                                              data |-> cur[t]])
                  /\ (~is_running /\ pc[t] = "assign" /\ pc'[t] = "save") =>
                        Hist' = filt[t]
                  /\ (~is_running /\ pc[t] = "save" /\ pc'[t] = "wait") =>
                        file' \in {file, serializable_data(Hist)}
            /\ (pc[t] # "dead" /\ pc'[t] = "dead") =>
                  pc[t] = "wait" /\ ~is_running]_vars

\* C12 witness: the updater was stopped while a worker was inside the
\* pipeline; the worker has since appended and pruned and is about to write
\* the file.
C12_Witness ==
    /\ ~is_running
    /\ pc[MainThread] = "idle"
    /\ \E t \in Workers :
          /\ pc[t] = "save"
          /\ Hist # <<>>
          /\ Hist[Len(Hist)].data = cur[t]
          /\ Len(file) < Len(Hist)

\* the scheduler is stopped: the flag is down and no worker thread is left
Stopped == ~is_running /\ \A t \in Workers : ~Alive(t)

HasReport ==
    /\ "rainfall_data" \in DOMAIN all_data
    /\ "regions" \in DOMAIN all_data.rainfall_data
Report == all_data.rainfall_data
\* the items of the page that gave a reading for the key nm
ItemsOf(nm) ==
    {i \in 1..Len(net.rainfall.text) :
        /\ strip(net.rainfall.text[i].name) = nm
        /\ \E p \in 1..3 : matches_pattern(p, net.rainfall.text[i])}
\* fractions n/d
FracEq(a, n, d) == a.n * d = n * a.d

\* C14: every region reading of a report comes from a matched item of the
\* text; if that item has one number, average = min = max = that number; if
\* it has two, min and max are the two numbers and average = (min + max) / 2.
C14_ReadingAverages ==
    HasReport =>
        \A nm \in DOMAIN Report.regions :
           \E i \in ItemsOf(nm) :
              LET item == net.rainfall.text[i]
                  r == Report.regions[nm]
              IN IF item.hi = <<>>
                 THEN /\ r.min_rainfall = item.lo
                      /\ r.max_rainfall = item.lo
                      /\ FracEq(r.average_rainfall, item.lo, 1)
                 ELSE /\ r.min_rainfall = item.lo
                      /\ r.max_rainfall = item.hi[1]
                      /\ FracEq(r.average_rainfall,
                                r.min_rainfall + r.max_rainfall, 2)

\* C14 witness: a report with a one-number reading and a range reading whose
\* average is not a whole number.
C14_Witness ==
    /\ fpc = "returned"
    /\ HasReport
    /\ DOMAIN Report.regions = {"DongQu", "XiGong"}
    /\ Report.regions["DongQu"].min_rainfall = 5
    /\ Report.regions["DongQu"].max_rainfall = 5
    /\ Report.regions["XiGong"].average_rainfall = [n |-> 5, d |-> 2]

\* the report's average is the equal-weight mean of the averages of its
\* regions (a report of this model has at most two regions)
AverageIsMean ==
    LET names == DOMAIN Report.regions
        h(x) == (Report.regions[x].average_rainfall.n * 2)
                    \div Report.regions[x].average_rainfall.d
    IN /\ Cardinality(names) <= 2
       /\ names = {} => FracEq(Report.average_rainfall, 0, 1)
       /\ \A x, y \in names :
             names = {x, y} =>
                FracEq(Report.average_rainfall,
                       IF x = y THEN h(x) ELSE h(x) + h(y),
                       2 * Cardinality(names))

\* C15 as stated: the report's average is the mean of its regions' averages
\* and is 0 if and only if the regions map is empty.
C15_MeanZeroIffEmpty ==
    HasReport =>
        /\ AverageIsMean
        /\ (Report.average_rainfall.n = 0) <=> (DOMAIN Report.regions = {})

\* C15 amended: the report's average is the mean of its regions' averages;
\* it is 0 when the regions map is empty, and otherwise exactly when every
\* region's average is 0.
C15_MeanOfRegions ==
    HasReport =>
        /\ AverageIsMean
        /\ (DOMAIN Report.regions = {}) => Report.average_rainfall.n = 0
        /\ (Report.average_rainfall.n = 0) <=>
              \A nm \in DOMAIN Report.regions :
                 Report.regions[nm].average_rainfall.n = 0

\* C15 witness: a report with one dry region: its average is 0 and its
\* regions map is not empty.
C15_Witness ==
    /\ fpc = "returned"
    /\ HasReport
    /\ DOMAIN Report.regions = {"XiGong"}
    /\ Report.total_regions = 1
    /\ Report.regions["XiGong"].max_rainfall = 0
    /\ Report.average_rainfall.n = 0

\* the text of the example: ZhongXiQu 1 haomi, XiGong 0 zhi 5 haomi
ExampleText ==
    <<[name |-> "ZhongXiQu", lo |-> 1, hi |-> <<>>, to |-> FALSE],
      [name |-> "XiGong", lo |-> 0, hi |-> <<5>>, to |-> TRUE]>>

\* C16: the text of the example parses to exactly two regions, ZhongXiQu
\* with min 1, max 1, average 1 and XiGong with min 0, max 5, average 2.5,
\* with report average 1.75; each item is matched by exactly one pattern.
C16_Example ==
    (HasReport /\ net.rainfall.text = ExampleText) =>
        /\ DOMAIN Report.regions = {"ZhongXiQu", "XiGong"}
        /\ Report.total_regions = 2
        /\ Report.regions["ZhongXiQu"].min_rainfall = 1
        /\ Report.regions["ZhongXiQu"].max_rainfall = 1
        /\ FracEq(Report.regions["ZhongXiQu"].average_rainfall, 1, 1)
        /\ Report.regions["XiGong"].min_rainfall = 0
        /\ Report.regions["XiGong"].max_rainfall = 5
        /\ FracEq(Report.regions["XiGong"].average_rainfall, 5, 2)
        /\ FracEq(Report.average_rainfall, 7, 4)
        /\ \A i \in 1..Len(ExampleText) :
              Cardinality({p \in 1..3 : matches_pattern(p, ExampleText[i])}) = 1

\* C16 witness: fetch_all_data has returned for the page of the example.
C16_Witness ==
    /\ fpc = "returned"
    /\ HasReport
    /\ net.rainfall.text = ExampleText
    /\ Report.total_regions = 2

\* C20: every region reading of a report has 0 <= min_rainfall <=
\* max_rainfall.
C20_MinAtMostMax ==
    HasReport =>
        \A nm \in DOMAIN Report.regions :
           /\ 0 <= Report.regions[nm].min_rainfall
           /\ Report.regions[nm].min_rainfall <= Report.regions[nm].max_rainfall

\* C17: when the file holds the store as save_historical_data writes it, a
\* load at the same instant gives back the entries of the store that lie in
\* the retention window, in order, each timestamp the datetime value that
\* append stored.
C17_RoundTrip ==
    [][(/\ restarts' # restarts
        /\ file = serializable_data(Hist)
        /\ ~prune_raises(Hist, now)) =>
          Hist' = prune(Hist, now)]_vars

\* C18: an execution that completes without a failed write of the history
\* file leaves the file equal to the in-memory history, its own new entry
\* included.
C18_FileFollowsHistory ==
    [][\A t \in Threads :
          Completes(t) =>
             \/ /\ pc[t] = "save"
                /\ file' = file
                /\ file # serializable_data(Hist)
             \/ /\ file' = serializable_data(Hist')
                /\ \E i \in 1..Len(Hist') : Hist'[i].data.id = cur[t].id]_vars

\* C19: when the write of the history file fails (the file stays as it was,
\* different from the history), the save step leaves historical_data and
\* its entries untouched and the call returns normally: the caller of start
\* goes on to start the worker, a worker goes back to its loop.
C19_FailedSaveKeepsHistory ==
    [][\A t \in Threads :
          (/\ pc[t] = "save"
           /\ pc'[t] # "save"
           /\ restarts' = restarts
           /\ file' = file
           /\ file # serializable_data(Hist)) =>
             /\ historical_data' = historical_data
             /\ lists' = lists
             /\ IF t = MainThread
                THEN /\ pc'[t] = "idle"
                     /\ update_thread' # update_thread
                     /\ pc'[update_thread'] = "wait"
                ELSE pc'[t] = "wait"]_vars

\* C19 witness: the write of the initial execution failed; the entry is in
\* the history, the file is still empty and the worker has been started.
C19_Witness ==
    /\ runs = 1
    /\ restarts = 0
    /\ Len(Hist) = 1
    /\ Hist[1].data.id = 1
    /\ file = <<>>
    /\ is_running
    /\ pc[MainThread] = "idle"
    /\ pc[1] = "wait"

\* C21: the reading stored for a region is the one of the pattern applied
\* last among the patterns that match an item of that trimmed name, and of
\* the last such item in the text for that pattern.
C21_LastMatchWins ==
    HasReport =>
        \A nm \in DOMAIN Report.regions :
           LET text == net.rainfall.text
               hits(p) == {i \in 1..Len(text) :
                              /\ strip(text[i].name) = nm
                              /\ matches_pattern(p, text[i])}
               P == CHOOSE p \in 1..3 :
                       /\ hits(p) # {}
                       /\ \A q \in 1..3 : hits(q) # {} => q <= p
               i == CHOOSE i \in hits(P) : \A k \in hits(P) : k <= i
               item == text[i]
               r == Report.regions[nm]
           IN /\ r.min_rainfall = item.lo
              /\ r.max_rainfall = IF P = 1 \/ item.hi = <<>> THEN item.lo
                                  ELSE item.hi[1]

\* C21 witness: the text holds a range item of ZhongXiQu followed by a
\* single-value item of ZhongXiQu; the range reading, of the pattern applied
\* later, is the one stored.
C21_Witness ==
    /\ fpc = "returned"
    /\ HasReport
    /\ Len(net.rainfall.text) = 2
    /\ net.rainfall.text[1] = [name |-> "ZhongXiQu", lo |-> 0, hi |-> <<5>>,
                               to |-> TRUE]
    /\ net.rainfall.text[2] = [name |-> "ZhongXiQu", lo |-> 1, hi |-> <<>>,
                               to |-> FALSE]
    /\ Report.regions["ZhongXiQu"].max_rainfall = 5

\* fetch_weather_warnings has returned a warning set (not an error)
HasWarnings ==
    /\ "weather_warnings" \in DOMAIN all_data
    /\ "active_warnings" \in DOMAIN all_data.weather_warnings
WarningSet == all_data.weather_warnings
\* the kinds the marker channel and the keyword channel detect in the page
MarkerKinds ==
    LET ms == net.warnings.markers
    IN {IF "ts" \in ms[i] THEN "thunderstorm"
        ELSE IF "rain" \in ms[i] THEN "heavy_rain"
        ELSE "strong_wind" :
           i \in {k \in 1..Len(ms) : ms[k] \cap {"ts", "rain", "wind"} # {}}}
KeywordKinds ==
    {k \in {"thunderstorm", "heavy_rain"} :
        \/ k = "thunderstorm" /\ "leibao_jinggao" \in net.warnings.words
        \/ k = "heavy_rain" /\ "baoyu_jinggao" \in net.warnings.words}
\* the highest severity among the signals of the page
MaxSeverity ==
    IF "thunderstorm" \in MarkerKinds \/ KeywordKinds # {} THEN "high"
    ELSE IF MarkerKinds # {} THEN "medium"
    ELSE "none"

\* C22: the warning level is the highest severity among the signals that
\* contributed to active_warnings, whatever the order of the markers.
C22_LevelIsMaximum ==
    HasWarnings => WarningSet.warning_level = MaxSeverity

\* C23: active_warnings holds every kind detected by the markers or the
\* keywords, and each kind once.
C23_WarningsAreASet ==
    HasWarnings =>
        LET l == WarningSet.active_warnings
        IN /\ {l[i] : i \in 1..Len(l)} = MarkerKinds \cup KeywordKinds
           /\ \A i, k \in 1..Len(l) : l[i] = l[k] => i = k

\* C24: when the text of the page holds a thunderstorm or rainstorm warning
\* phrase the warning level is high, whatever the markers.
C24_KeywordMeansHigh ==
    (HasWarnings /\ KeywordKinds # {}) => WarningSet.warning_level = "high"

\* C24 witness: a page with a wind marker, which sets medium, and the
\* rainstorm phrase: the level is high.
C24_Witness ==
    /\ fpc = "returned"
    /\ HasWarnings
    /\ net.warnings.markers = <<{"wind"}>>
    /\ net.warnings.words = {"baoyu_jinggao"}
    /\ WarningSet.active_warnings = <<"strong_wind", "heavy_rain">>
    /\ WarningSet.warning_level = "high"

\* C25: in every reachable state every entry of historical_data holds a
\* datetime timestamp.
C25_OneTimestampKind ==
    \A i \in 1..Len(Hist) : Hist[i].timestamp.k = "datetime"

\* C27: start_background_updates on a running updater returns without an
\* execution, a new job or a new worker thread, and the updater never has
\* more than one registered job or more than one live worker thread.
C27_StartIsIdempotent ==
    [][/\ (pc[MainThread] = "start" /\ is_running
              /\ pc'[MainThread] # "start") =>
             /\ pc'[MainThread] = "idle"
             /\ jobs' = jobs
             /\ nworkers' = nworkers
             /\ update_thread' = update_thread
             /\ runs' = runs
             /\ lists' = lists
       /\ Cardinality(jobs') <= 1
       /\ Cardinality({t \in Workers : pc'[t] \notin {"none", "dead"}}) <= 1]_vars

\* C28: when start_background_updates returns from its initial execution the
\* history is not empty and its last entry is the snapshot of that
\* execution.
C28_InitialSnapshotIsLatest ==
    [][(/\ pc[MainThread] \in {"prune", "save"}
        /\ pc'[MainThread] = "idle"
        /\ restarts' = restarts) =>
          /\ Len(Hist') > 0
          /\ get_latest_data(Hist') = cur[MainThread]]_vars

\* C29: in every reachable state the entries of historical_data stand in
\* non-decreasing order of their timestamps.
C29_OrderedByTime ==
    \A i, k \in 1..Len(Hist) :
       i < k => Hist[i].timestamp.t <= Hist[k].timestamp.t

\* C26: while the other updater runs, its job stays registered and due
\* within its own interval, whatever this updater's stop_background_updates
\* does.
C26_OtherScheduleKept ==
    \E j \in jobs : j.id = OtherJob /\ j.next_run <= now + OtherInterval

\* C30: load_historical_data never raises, so the constructor completes; it
\* returns an empty history when the file is missing, unreadable or not valid
\* JSON, or when any entry has a missing or malformed timestamp; what it
\* returns is either empty or the complete selection from a file whose entries
\* are all well formed, never a part of it.
C30_LoadAllOrNothing ==
    [][restarts' # restarts =>
          /\ pc'[MainThread] = "idle"
          /\ (\/ historical_file \in {"missing", "unreadable", "invalid"}
              \/ \E i \in 1..Len(file) :
                    file[i].timestamp.k \in {"none", "malformed"})
                => Hist' = <<>>
          /\ \/ Hist' = <<>>
             \/ /\ historical_file = "json"
                /\ \A i \in 1..Len(file) : file[i].timestamp.k = "str"
                /\ Hist' = SelectSeq(file, LAMBDA e :
                               e.timestamp.t > now - Retention)]_vars

\* C30 witness: the constructor has read a file whose first entry is recent
\* and well formed and whose second entry has a malformed timestamp, and the
\* history is empty.
C30_Witness ==
    /\ restarts = 1
    /\ historical_file = "json"
    /\ Len(file) = 2
    /\ file[1].timestamp.k = "str"
    /\ file[1].timestamp.t > now - Retention
    /\ file[2].timestamp.k = "malformed"
    /\ Hist = <<>>

====
